---- MODULE Spec2Model ----
(***************************************************************************)
(* Model of oura_discord_bot.py: the configuration store (OuraBotConfig),  *)
(* the command handlers, the background price_check_loop (a                *)
(* discord.ext.tasks loop) and the sweeps of check_all_prices.             *)
(*                                                                         *)
(* The program is a single asyncio event loop.  A handler runs atomically  *)
(* from one await to the next, so every action below is one such segment:  *)
(* the code between two suspension points (asyncio.sleep(2) in a sweep,    *)
(* channel.send in the alert loop, the timer sleep of the tasks loop).     *)
(* Time is counted in minutes.                                             *)
(***************************************************************************)
EXTENDS Integers, Sequences, FiniteSets, TLC

VARIABLES
    data,           \* OuraBotConfig.data, the configuration in memory
    disk,           \* the content of bot_config.json
    ready,          \* the bot is connected (bot.wait_until_ready returns)
    price_history,  \* tracker.price_history
    alerts,         \* the price alerts this process has sent to channels
    loopTask,       \* price_check_loop's task: none, starting, sleeping, body, failed
    loopMinutes,    \* price_check_loop's own period (set by change_interval)
    nextIn,         \* minutes until the loop's _next_iteration
    sched,          \* the scheduled sweep run by the loop body
    checks,         \* the check_now invocations in flight
    reply,          \* the last check result or refusal sent to a requester
    visible,        \* the channel ids bot.get_channel resolves
    cadence,        \* history variable: minutes since the cadence was (re)set
    page,           \* one call of extract_price: the response and the result
    clock,          \* datetime.now(), counted in ticks
    recent          \* what show_history last sent to a requester

vars == <<data, disk, ready, price_history, alerts, loopTask, loopMinutes,
          nextIn, sched, checks, reply, visible, cadence, page, clock, recent>>

---------------------------------------------------------------------------
(* Bounds of the model *)

\* Observations one process run may collect (later fetches find no price).
MaxHistory == 2
\* check_now invocations that may be in flight together.
MaxChecks == 1
\* Minutes by which one Tick advances time, at most.
TickStep == 30
\* Pieces a page is put together from, at most.
MaxPieces == 2
\* Observations an earlier part of the run may have collected, beyond the
\* number show_history displays.
MaxExtra == 1
\* Ticks of the clock.
MaxClock == 2

---------------------------------------------------------------------------
(* Program constants *)

NoChannel == 0
NoPrice == 0
MinTargetPrice == 100
MaxTargetPrice == 600
MinInterval == 10
MaxInterval == 1440
MinPlausible == 200
MaxPlausible == 600
DefaultTargetPrice == 299
DefaultInterval == 60
DecoratorMinutes == 60
HistoryShown == 10

\* float('nan'), which the float converter of a command argument accepts.
\* The prices of the model are whole dollars; NaN is the one other float.
NaN == -1

DefaultColors == <<"silver", "black", "gold">>

RetailerKeys == <<"amazon", "target", "oura">>

retailers ==
    [amazon |-> [name |-> "Amazon", colors |-> {"silver", "black", "gold"}],
     target |-> [name |-> "Target", colors |-> {"black"}],
     oura   |-> [name |-> "Oura Official",
                 colors |-> {"silver", "black", "gold", "rose_gold"}]]

\* base_urls of the 'oura' retailer: the colors that have a URL of their own.
OuraBaseUrls == {"silver", "black", "gold", "rose_gold"}

valid_colors == {"silver", "black", "gold", "rose_gold", "stealth"}

---------------------------------------------------------------------------
(* Inputs *)

Channels == {1, 2}
PriceArgs == {MinTargetPrice - 1, 350, MaxTargetPrice + 1, NaN}
IntervalArgs == {MinInterval - 1, 30, MaxInterval + 1}
ColorArgs == {<< >>, <<"purple">>, <<"Black">>, <<"stealth">>}
\* The arguments of the setters that pass validation.
GoodPrices == {350}
GoodIntervals == {30}
GoodColors == {<<"Black">>, <<"stealth">>}
\* The price extract_price finds on a page when the fetch succeeds: two pages
\* show one, the others show none (or block the bot).
PagePrice(t) ==
    IF t.retailer = "amazon" /\ t.color = "silver" THEN 299
    ELSE IF t.retailer = "target" /\ t.color = "black" THEN 350
    ELSE NoPrice
\* What extract_price may return: None (the fetch failed) or the page's price.
FetchOutcomes == {NoPrice, 299, 350}

---------------------------------------------------------------------------
(* Helpers *)

\* The comparisons of Python floats: any comparison with NaN is false.
FloatLt(a, b) == a # NaN /\ b # NaN /\ a < b
FloatLe(a, b) == a # NaN /\ b # NaN /\ a <= b

Min(a, b) == IF a <= b THEN a ELSE b
Max(a, b) == IF a >= b THEN a ELSE b

\* str.lower() on the color names the inputs use.
Lower(c) == IF c = "Black" THEN "black" ELSE c

LowerAll(colors) == [i \in 1..Len(colors) |-> Lower(colors[i])]

HasUrl(rk, color) == IF rk = "oura" THEN color \in OuraBaseUrls ELSE TRUE

\* The targets of one retailer, in the order of tracked_colors.
RetailerTargets(rk, colors) ==
    LET F[i \in 0..Len(colors)] ==
            IF i = 0 THEN << >>
            ELSE IF colors[i] \in retailers[rk].colors /\ HasUrl(rk, colors[i])
                 THEN Append(F[i - 1], [retailer |-> rk, color |-> colors[i]])
                 ELSE F[i - 1]
    IN F[Len(colors)]

\* The (retailer, color) pairs check_all_prices fetches, in its order.
Targets(colors) ==
    RetailerTargets(RetailerKeys[1], colors)
        \o RetailerTargets(RetailerKeys[2], colors)
        \o RetailerTargets(RetailerKeys[3], colors)

\* extract_price keeps a price only inside the plausible range.
Plausible(price) == MinPlausible <= price /\ price <= MaxPlausible

\* One pass of the body of check_all_prices' inner loop: the result is
\* appended only when a price came back.
Fetched(results, t, price) ==
    IF price # NoPrice
    THEN Append(results, [timestamp |-> clock,
                          retailer |-> retailers[t.retailer].name,
                          color |-> t.color, price |-> price])
    ELSE results

\* Mutant of Deals: the comparison is strict.
DealsStrict(results, target_price) ==
    SelectSeq(results, LAMBDA r : FloatLt(r.price, target_price))

\* deals = [r for r in results if r['price'] <= target_price]
Deals(results, target_price) ==
    SelectSeq(results, LAMBDA r : FloatLe(r.price, target_price))

\* min(results, key=lambda x: x['price']): the first of the lowest.
Lowest(results) ==
    LET i == CHOOSE i \in 1..Len(results) :
                 /\ \A j \in 1..Len(results) : results[i].price <= results[j].price
                 /\ \A j \in 1..(i - 1) : results[j].price > results[i].price
    IN results[i]

DefaultData ==
    [target_price |-> DefaultTargetPrice,
     check_interval |-> DefaultInterval,
     tracked_colors |-> DefaultColors,
     tracking_enabled |-> FALSE,
     alert_channel_id |-> NoChannel]

IdleSweep == [pc |-> "idle", todo |-> << >>, results |-> << >>,
              deals |-> << >>, target_price |-> 0, channel |-> NoChannel,
              base |-> 0, snap |-> [target_price |-> 0, channel |-> NoChannel]]

NoCheck == [pc |-> "idle", todo |-> << >>, results |-> << >>]

NoReply == [kind |-> "none", best |-> NoPrice]

NoCadence == [origin |-> "none", age |-> 0]

NoRecent == [kind |-> "none", entries |-> << >>]

\* bot.get_channel: the channel of that id, or None when the bot has none.
get_channel(channel_id) == IF channel_id \in visible THEN channel_id ELSE NoChannel

\* price_check_loop.is_running(): a task exists and is not done.
is_running == loopTask \in {"starting", "sleeping", "body"}

---------------------------------------------------------------------------
(* extract_price.  The text of a page is a sequence of characters; a price  *)
(* read from it is counted in cents, so that $349.99 is 34999.              *)

\* The pieces the pages of the model are put together from: price tags, with
\* the amount they show, and text that shows none.
Pieces ==
    << [chars |-> <<"$", "1", "9", "9">>, cents |-> 19900],
       [chars |-> <<"$", "3", "4", "9">>, cents |-> 34900],
       [chars |-> <<"$", "2", "9", "9", "9">>, cents |-> 299900],
       [chars |-> <<"$", "3", "4", "9", ".", "9", "9">>, cents |-> 34999],
       [chars |-> <<"3", "4", "9", " ", "U", "S", "D">>, cents |-> 34900],
       [chars |-> <<"1", "5", "0", " ", "U", "S", "D">>, cents |-> 15000],
       [chars |-> <<" ">>, cents |-> NoPrice],
       [chars |-> <<"n", "o", "w">>, cents |-> NoPrice] >>

\* The ways a request ends: a response with a status code, or an exception.
Responses == {"200", "404", "timeout"}

\* soup.get_text() of a page made of the pieces ps, in their order.
Text(ps) ==
    LET F[i \in 0..Len(ps)] ==
            IF i = 0 THEN << >> ELSE F[i - 1] \o Pieces[ps[i]].chars
    IN F[Len(ps)]

Digits == <<"0", "1", "2", "3", "4", "5", "6", "7", "8", "9">>

\* \d
IsDigit(c) == \E n \in 1..Len(Digits) : Digits[n] = c

DigitValue(c) == (CHOOSE n \in 1..Len(Digits) : Digits[n] = c) - 1

\* The character at position i, or the empty string past the end.
At(text, i) == IF i \in 1..Len(text) THEN text[i] ELSE ""

\* \d{3} at position i
ThreeDigits(text, i) ==
    IsDigit(At(text, i)) /\ IsDigit(At(text, i + 1)) /\ IsDigit(At(text, i + 2))

\* (?:\.\d{2}) at position i
CentsAt(text, i) ==
    At(text, i) = "." /\ IsDigit(At(text, i + 1)) /\ IsDigit(At(text, i + 2))

\* \s* from position i: the position of the first character that is no space.
RECURSIVE SkipSpaces(_, _)
SkipSpaces(text, i) ==
    IF At(text, i) = " " THEN SkipSpaces(text, i + 1) ELSE i

\* USD at position i
UsdAt(text, i) ==
    At(text, i) = "U" /\ At(text, i + 1) = "S" /\ At(text, i + 2) = "D"

\* patterns, by the names the model gives them:
\*   dollar   \$(\d{3}(?:\.\d{2})?)
\*   usd      (\d{3}(?:\.\d{2})?)\s*USD
patterns == <<"dollar", "usd">>

\* The pattern matches with its first character at position i.
MatchAt(pattern, text, i) ==
    IF pattern = "dollar"
    THEN At(text, i) = "$" /\ ThreeDigits(text, i + 1)
    ELSE /\ ThreeDigits(text, i)
         /\ \/ CentsAt(text, i + 3) /\ UsdAt(text, SkipSpaces(text, i + 6))
            \/ UsdAt(text, SkipSpaces(text, i + 3))

\* float(match.group(1)) of the match at position i, in cents.  The optional
\* group of cents is greedy: it is part of the match whenever the rest of the
\* pattern still matches behind it.
Group(pattern, text, i) ==
    LET d == IF pattern = "dollar" THEN i + 1 ELSE i
        cents == IF pattern = "dollar"
                 THEN CentsAt(text, d + 3)
                 ELSE CentsAt(text, d + 3) /\ UsdAt(text, SkipSpaces(text, d + 6))
    IN 10000 * DigitValue(text[d]) + 1000 * DigitValue(text[d + 1])
         + 100 * DigitValue(text[d + 2])
         + (IF cents
            THEN 10 * DigitValue(text[d + 4]) + DigitValue(text[d + 5])
            ELSE 0)

\* re.search(pattern, text): the position of the leftmost match, 0 for None.
search(pattern, text) ==
    IF \E i \in 1..Len(text) : MatchAt(pattern, text, i)
    THEN CHOOSE i \in 1..Len(text) :
            /\ MatchAt(pattern, text, i)
            /\ \A j \in 1..(i - 1) : ~MatchAt(pattern, text, j)
    ELSE 0

\* 200 <= price <= 600, for a price in cents.
PlausibleCents(price) ==
    100 * MinPlausible <= price /\ price <= 100 * MaxPlausible

\* Mutant of extract_price: the first pattern that matches decides.
extract_price_first_match(response, text) ==
    LET Try[k \in 1..(Len(patterns) + 1)] ==
            IF k > Len(patterns) THEN NoPrice
            ELSE LET i == search(patterns[k], text)
                 IN IF i # 0
                    THEN IF PlausibleCents(Group(patterns[k], text, i))
                         THEN Group(patterns[k], text, i)
                         ELSE NoPrice
                    ELSE Try[k + 1]
    IN IF response # "200" THEN NoPrice ELSE Try[1]

\* extract_price: None unless the response is a 200; then, for each pattern
\* in turn, the first match is read and returned when it is in the range.
extract_price(response, text) ==
    LET Try[k \in 1..(Len(patterns) + 1)] ==
            IF k > Len(patterns) THEN NoPrice
            ELSE LET i == search(patterns[k], text)
                 IN IF i # 0 /\ PlausibleCents(Group(patterns[k], text, i))
                    THEN Group(patterns[k], text, i)
                    ELSE Try[k + 1]
    IN IF response # "200" THEN NoPrice ELSE Try[1]

NoPage == [pc |-> "idle", pieces |-> << >>, response |-> "200", price |-> NoPrice]

\* The pages of at most MaxPieces pieces.
PageSeqs ==
    UNION {[1..n -> 1..Len(Pieces)] : n \in 1..MaxPieces}

\* requests.get returns (or raises): the page of a retailer is in.
PageFetched(ps, response) ==
    /\ page.pc # "fetched"
    /\ page' = [pc |-> "fetched", pieces |-> ps, response |-> response,
                price |-> NoPrice]
    /\ UNCHANGED <<data, disk, ready, price_history, alerts, loopTask,
                   loopMinutes, nextIn, sched, checks, reply, visible, cadence,
                   clock, recent>>

\* The rest of extract_price: the price read from the page, or None.
PageExtracted ==
    /\ page.pc = "fetched"
    /\ page' = [page EXCEPT
                   !.pc = "done",
                   !.price = extract_price(page.response, Text(page.pieces))]
    /\ UNCHANGED <<data, disk, ready, price_history, alerts, loopTask,
                   loopMinutes, nextIn, sched, checks, reply, visible, cadence,
                   clock, recent>>

---------------------------------------------------------------------------
(* The configuration store *)

\* OuraBotConfig.set: self.data[key] = value, then save_config() writes the
\* whole of self.data to the file.
Set(d) == data' = d /\ disk' = d

\* The same call when save_config() raises (the file cannot be written): the
\* assignment to self.data has already happened, the file keeps its content.
SetUnsaved(d) == data' = d /\ UNCHANGED disk

---------------------------------------------------------------------------
(* The background loop (discord.ext.tasks.Loop) *)

\* Loop.start(): a new task, which first runs before_loop.  The body's locals
\* of an earlier task are gone.
LoopStarted ==
    /\ loopTask' = "starting"
    /\ sched' = IdleSweep
    /\ UNCHANGED <<loopMinutes, nextIn>>

\* Loop.restart(): cancels the running task, at whichever await it is
\* suspended, and starts a new one when it is over; nothing when no task runs.
LoopRestarted ==
    IF is_running THEN LoopStarted
    ELSE UNCHANGED <<loopTask, loopMinutes, nextIn, sched>>

\* The history variable: the cadence is (re)set by origin now.
CadenceSet(origin) == cadence' = [origin |-> origin, age |-> 0]

Init ==
    /\ data = DefaultData
    /\ disk = DefaultData
    /\ ready = FALSE
    /\ price_history = << >>
    /\ alerts = << >>
    /\ loopTask = "none"
    /\ loopMinutes = DecoratorMinutes
    /\ nextIn = 0
    /\ sched = IdleSweep
    /\ checks = [i \in 1..MaxChecks |-> NoCheck]
    /\ reply = NoReply
    /\ visible = Channels
    /\ cadence = NoCadence
    /\ page = NoPage
    /\ clock = 0
    /\ recent = NoRecent

\* on_ready: starts the loop when tracking is enabled and no task runs.
OnReady ==
    /\ ready' = TRUE
    /\ IF data.tracking_enabled /\ ~is_running
       THEN LoopStarted
       ELSE UNCHANGED <<loopTask, loopMinutes, nextIn, sched>>
    /\ IF ~ready /\ data.tracking_enabled
       THEN CadenceSet("startup")
       ELSE UNCHANGED cadence
    /\ UNCHANGED <<data, disk, price_history, alerts, checks, reply, visible>>
    /\ UNCHANGED <<page, clock, recent>>

---------------------------------------------------------------------------
(* Commands.  Each handler changes the state before its first await (the   *)
(* ctx.send of its reply), so a command is one step.                       *)

Refusal(kind) == [kind |-> kind, best |-> NoPrice]

\* Mutant of Start: a start while tracking is enabled moves the alerts to the
\* requester's channel.
StartRepointing(channel) ==
    /\ ready
    /\ IF data.tracking_enabled
       THEN /\ Set([data EXCEPT !.alert_channel_id = channel])
            /\ UNCHANGED <<loopTask, loopMinutes, nextIn, sched, cadence>>
       ELSE /\ Set([data EXCEPT !.tracking_enabled = TRUE,
                                !.alert_channel_id = channel])
            /\ IF ~is_running THEN LoopStarted
               ELSE UNCHANGED <<loopTask, loopMinutes, nextIn, sched>>
            /\ CadenceSet("start")
    /\ UNCHANGED <<ready, price_history, alerts, checks, reply, visible>>
    /\ UNCHANGED <<page, clock, recent>>

\* start_tracking
Start(channel) ==
    /\ ready
    /\ IF data.tracking_enabled
       THEN UNCHANGED <<data, disk, loopTask, loopMinutes, nextIn, sched, cadence>>
       ELSE /\ Set([data EXCEPT !.tracking_enabled = TRUE,
                                !.alert_channel_id = channel])
            /\ IF ~is_running THEN LoopStarted
               ELSE UNCHANGED <<loopTask, loopMinutes, nextIn, sched>>
            /\ CadenceSet("start")
    /\ UNCHANGED <<ready, price_history, alerts, checks, reply, visible>>
    /\ UNCHANGED <<page, clock, recent>>

\* stop_tracking
Stop ==
    /\ ready
    /\ IF ~data.tracking_enabled
       THEN UNCHANGED <<data, disk, cadence>>
       ELSE /\ Set([data EXCEPT !.tracking_enabled = FALSE])
            /\ cadence' = NoCadence
    /\ UNCHANGED <<ready, price_history, alerts, loopTask, loopMinutes, nextIn,
                   sched, checks, reply, visible>>
    /\ UNCHANGED <<page, clock, recent>>

\* not (price < 100 or price > 600)
ValidPrice(price) ==
    ~(FloatLt(price, MinTargetPrice) \/ FloatLt(MaxTargetPrice, price))

\* set_price
SetPrice(price) ==
    /\ ready
    /\ IF ValidPrice(price)
       THEN Set([data EXCEPT !.target_price = price]) /\ UNCHANGED reply
       ELSE reply' = Refusal("invalid_price") /\ UNCHANGED <<data, disk>>
    /\ UNCHANGED <<ready, price_history, alerts, loopTask, loopMinutes, nextIn,
                   sched, checks, visible, cadence>>
    /\ UNCHANGED <<page, clock, recent>>

\* set_colors
SetColors(args) ==
    /\ ready
    /\ LET colors == LowerAll(args)
           invalid == SelectSeq(colors, LAMBDA c : c \notin valid_colors)
       IN IF invalid # << >>
          THEN reply' = Refusal("invalid_colors") /\ UNCHANGED <<data, disk>>
          ELSE IF colors = << >>
               THEN reply' = Refusal("no_colors") /\ UNCHANGED <<data, disk>>
               ELSE Set([data EXCEPT !.tracked_colors = colors]) /\ UNCHANGED reply
    /\ UNCHANGED <<ready, price_history, alerts, loopTask, loopMinutes, nextIn,
                   sched, checks, visible, cadence>>
    /\ UNCHANGED <<page, clock, recent>>

\* not (minutes < 10 or minutes > 1440)
ValidInterval(minutes) == ~(minutes < MinInterval \/ minutes > MaxInterval)

\* set_interval
SetInterval(minutes) ==
    /\ ready
    /\ IF ValidInterval(minutes)
       THEN /\ Set([data EXCEPT !.check_interval = minutes])
            /\ IF data.tracking_enabled
               THEN LoopRestarted /\ CadenceSet("interval")
               ELSE UNCHANGED <<loopTask, loopMinutes, nextIn, sched, cadence>>
            /\ UNCHANGED reply
       ELSE /\ reply' = Refusal("invalid_interval")
            /\ UNCHANGED <<data, disk, loopTask, loopMinutes, nextIn, sched, cadence>>
    /\ UNCHANGED <<ready, price_history, alerts, checks, visible>>
    /\ UNCHANGED <<page, clock, recent>>

---------------------------------------------------------------------------
(* Commands whose save_config() raises: the handler ends at the exception, *)
(* after the assignment to self.data.                                      *)

\* start_tracking: the first or the second config.set fails.  The loop is
\* not started in either case.
StartUnsaved(channel, call) ==
    /\ ready
    /\ ~data.tracking_enabled
    /\ IF call = 1
       THEN SetUnsaved([data EXCEPT !.tracking_enabled = TRUE])
       ELSE /\ data' = [data EXCEPT !.tracking_enabled = TRUE,
                                    !.alert_channel_id = channel]
            /\ disk' = [data EXCEPT !.tracking_enabled = TRUE]
    /\ UNCHANGED <<ready, price_history, alerts, loopTask, loopMinutes, nextIn,
                   sched, checks, reply, visible, cadence>>
    /\ UNCHANGED <<page, clock, recent>>

StopUnsaved ==
    /\ ready
    /\ data.tracking_enabled
    /\ SetUnsaved([data EXCEPT !.tracking_enabled = FALSE])
    /\ UNCHANGED <<ready, price_history, alerts, loopTask, loopMinutes, nextIn,
                   sched, checks, reply, visible, cadence>>
    /\ UNCHANGED <<page, clock, recent>>

SetPriceUnsaved(price) ==
    /\ ready
    /\ ValidPrice(price)
    /\ SetUnsaved([data EXCEPT !.target_price = price])
    /\ UNCHANGED <<ready, price_history, alerts, loopTask, loopMinutes, nextIn,
                   sched, checks, reply, visible, cadence>>
    /\ UNCHANGED <<page, clock, recent>>

SetColorsUnsaved(args) ==
    /\ ready
    /\ LET colors == LowerAll(args)
       IN /\ SelectSeq(colors, LAMBDA c : c \notin valid_colors) = << >>
          /\ colors # << >>
          /\ SetUnsaved([data EXCEPT !.tracked_colors = colors])
    /\ UNCHANGED <<ready, price_history, alerts, loopTask, loopMinutes, nextIn,
                   sched, checks, reply, visible, cadence>>
    /\ UNCHANGED <<page, clock, recent>>

\* set_interval: the exception comes before price_check_loop.restart().
SetIntervalUnsaved(minutes) ==
    /\ ready
    /\ ValidInterval(minutes)
    /\ SetUnsaved([data EXCEPT !.check_interval = minutes])
    /\ UNCHANGED <<ready, price_history, alerts, loopTask, loopMinutes, nextIn,
                   sched, checks, reply, visible, cadence>>
    /\ UNCHANGED <<page, clock, recent>>

---------------------------------------------------------------------------
(* Sweeps: check_all_prices *)

\* Whether extract_price may return price for target t once n observations
\* have been collected: None, or the page's price when it is plausible.
Fetchable(t, price, n) ==
    \/ price = NoPrice
    \/ price = PagePrice(t) /\ Plausible(price) /\ n < MaxHistory

\* check_now, from the read of tracked_colors to the first asyncio.sleep(2)
\* (or to the reply, when no retailer sells a tracked color).
CheckNow(i, price) ==
    /\ ready
    /\ checks[i].pc = "idle"
    /\ \A j \in 1..(i - 1) : checks[j].pc # "idle"
    /\ LET todo == Targets(data.tracked_colors)
       IN IF todo = << >>
          THEN /\ price = NoPrice
               /\ reply' = [kind |-> "no_prices", best |-> NoPrice]
               /\ UNCHANGED checks
          ELSE /\ Fetchable(Head(todo), price, 0)
               /\ checks' = [checks EXCEPT ![i] =
                                 [pc |-> "sweep", todo |-> Tail(todo),
                                  results |-> Fetched(<< >>, Head(todo), price)]]
               /\ UNCHANGED reply
    /\ UNCHANGED <<data, disk, ready, price_history, alerts, loopTask,
                   loopMinutes, nextIn, sched, visible, cadence>>
    /\ UNCHANGED <<page, clock, recent>>

\* check_now resumed after a sleep, with targets left: the next fetch.
CheckFetch(i, price) ==
    /\ checks[i].pc = "sweep"
    /\ checks[i].todo # << >>
    /\ Fetchable(Head(checks[i].todo), price, Len(checks[i].results))
    /\ checks' = [checks EXCEPT ![i] =
                      [pc |-> "sweep", todo |-> Tail(checks[i].todo),
                       results |-> Fetched(checks[i].results,
                                           Head(checks[i].todo), price)]]
    /\ UNCHANGED <<data, disk, ready, price_history, alerts, loopTask,
                   loopMinutes, nextIn, sched, reply, visible, cadence>>
    /\ UNCHANGED <<page, clock, recent>>

\* Mutant of CheckReply: the deals among the results are sent to the alert
\* channel, as the scheduled path does.
CheckReplyAlerting(i) ==
    /\ checks[i].pc = "sweep"
    /\ checks[i].todo = << >>
    /\ reply' = IF checks[i].results = << >>
                 THEN [kind |-> "no_prices", best |-> NoPrice]
                 ELSE [kind |-> "prices",
                       best |-> Lowest(checks[i].results).price]
    /\ checks' = [checks EXCEPT ![i] = NoCheck]
    /\ alerts' = alerts \o
          [k \in 1..Len(Deals(checks[i].results, data.target_price)) |->
              [channel |-> data.alert_channel_id,
               deal |-> Deals(checks[i].results, data.target_price)[k],
               target_price |-> data.target_price]]
    /\ UNCHANGED <<data, disk, ready, price_history, loopTask,
                   loopMinutes, nextIn, sched, visible, cadence>>
    /\ UNCHANGED <<page, clock, recent>>

\* check_now resumed after the last sleep: the reply to the requester.
CheckReply(i) ==
    /\ checks[i].pc = "sweep"
    /\ checks[i].todo = << >>
    /\ reply' = IF checks[i].results = << >>
                    THEN [kind |-> "no_prices", best |-> NoPrice]
                    ELSE [kind |-> "prices",
                          best |-> Lowest(checks[i].results).price]
    /\ checks' = [checks EXCEPT ![i] = NoCheck]
    /\ UNCHANGED <<data, disk, ready, price_history, alerts, loopTask,
                   loopMinutes, nextIn, sched, visible, cadence>>
    /\ UNCHANGED <<page, clock, recent>>

---------------------------------------------------------------------------
(* price_check_loop *)

\* The new task runs before_price_check: wait_until_ready, change_interval;
\* the first iteration is due at once.
LoopBegin ==
    /\ loopTask = "starting"
    /\ ready
    /\ loopTask' = "sleeping"
    /\ loopMinutes' = data.check_interval
    /\ nextIn' = 0
    /\ UNCHANGED <<data, disk, ready, price_history, alerts, sched, checks,
                   reply, visible, cadence>>
    /\ UNCHANGED <<page, clock, recent>>

\* Mutant of LoopIteration: the body does not look at tracking_enabled.
LoopIterationUnguarded(price) ==
    /\ loopTask = "sleeping"
    /\ nextIn = 0
    /\ nextIn' = loopMinutes
    /\ cadence' = NoCadence
    /\ LET todo == Targets(data.tracked_colors)
       IN IF todo = << >>
          THEN price = NoPrice /\ UNCHANGED <<loopTask, sched>>
          ELSE /\ Fetchable(Head(todo), price, Len(price_history))
               /\ loopTask' = "body"
               /\ sched' = [IdleSweep EXCEPT
                       !.pc = "sweep",
                       !.todo = Tail(todo),
                       !.results = Fetched(<< >>, Head(todo), price),
                       !.snap = [target_price |-> data.target_price,
                                 channel |-> data.alert_channel_id]]
    /\ UNCHANGED <<data, disk, ready, price_history, alerts, loopMinutes,
                   checks, reply, visible>>
    /\ UNCHANGED <<page, clock, recent>>

\* An iteration is due: the next one is set a period later and the body runs,
\* to its return or to the first asyncio.sleep(2) of the sweep.
LoopIteration(price) ==
    /\ loopTask = "sleeping"
    /\ nextIn = 0
    /\ nextIn' = loopMinutes
    /\ IF ~data.tracking_enabled
       THEN price = NoPrice /\ UNCHANGED <<loopTask, sched, cadence>>
       ELSE /\ cadence' = NoCadence
            /\ LET todo == Targets(data.tracked_colors)
               IN IF todo = << >>
                  THEN price = NoPrice /\ UNCHANGED <<loopTask, sched>>
                  ELSE /\ Fetchable(Head(todo), price, Len(price_history))
                       /\ loopTask' = "body"
                       /\ sched' = [IdleSweep EXCEPT
                               !.pc = "sweep",
                               !.todo = Tail(todo),
                               !.results = Fetched(<< >>, Head(todo), price),
                               !.snap = [target_price |-> data.target_price,
                                         channel |-> data.alert_channel_id]]
    /\ UNCHANGED <<data, disk, ready, price_history, alerts, loopMinutes,
                   checks, reply, visible>>
    /\ UNCHANGED <<page, clock, recent>>

\* Mutant of SweepFetch: a fetch that fails ends the sweep.
SweepFetchAborting(price) ==
    /\ loopTask = "body"
    /\ sched.pc = "sweep"
    /\ sched.todo # << >>
    /\ Fetchable(Head(sched.todo), price, Len(price_history) + Len(sched.results))
    /\ sched' = [sched EXCEPT
           !.todo = IF price = NoPrice THEN << >> ELSE Tail(sched.todo),
           !.results = Fetched(sched.results, Head(sched.todo), price)]
    /\ UNCHANGED <<data, disk, ready, price_history, alerts, loopTask,
                   loopMinutes, nextIn, checks, reply, visible, cadence>>
    /\ UNCHANGED <<page, clock, recent>>

\* The body resumed after a sleep, with targets left: the next fetch.
SweepFetch(price) ==
    /\ loopTask = "body"
    /\ sched.pc = "sweep"
    /\ sched.todo # << >>
    /\ Fetchable(Head(sched.todo), price, Len(price_history) + Len(sched.results))
    /\ sched' = [sched EXCEPT
           !.todo = Tail(sched.todo),
           !.results = Fetched(sched.results, Head(sched.todo), price)]
    /\ UNCHANGED <<data, disk, ready, price_history, alerts, loopTask,
                   loopMinutes, nextIn, checks, reply, visible, cadence>>
    /\ UNCHANGED <<page, clock, recent>>

\* The body returns: the task sleeps until the next iteration.
BodyReturns ==
    /\ loopTask' = "sleeping"
    /\ sched' = IdleSweep

\* The body resumed after the last sleep: the results go to the history, the
\* deals are picked and the alert channel is looked up.
SweepDone ==
    /\ loopTask = "body"
    /\ sched.pc = "sweep"
    /\ sched.todo = << >>
    /\ IF sched.results = << >>
       THEN BodyReturns /\ UNCHANGED price_history
       ELSE /\ price_history' = price_history \o sched.results
            /\ LET target_price == data.target_price
                   deals == Deals(sched.results, target_price)
                   channel_id == data.alert_channel_id
                   channel == get_channel(channel_id)
               IN IF deals = << >> \/ channel_id = NoChannel \/ channel = NoChannel
                  THEN BodyReturns
                  ELSE /\ sched' = [sched EXCEPT
                              !.pc = "alert",
                              !.deals = deals,
                              !.target_price = target_price,
                              !.channel = channel,
                              !.base = Len(alerts)]
                       /\ UNCHANGED loopTask
    /\ UNCHANGED <<data, disk, ready, alerts, loopMinutes, nextIn, checks,
                   reply, visible, cadence>>
    /\ UNCHANGED <<page, clock, recent>>

SendOutcomes == {"sent", "embed_failed", "mention_failed"}

\* One round of the alert loop: channel.send(embed) and channel.send of the
\* @everyone line.  A send that raises ends the task (the loop's error path).
SweepAlert ==
    /\ loopTask = "body"
    /\ sched.pc = "alert"
    /\ \E outcome \in SendOutcomes :
          /\ alerts' = IF outcome = "embed_failed" THEN alerts
                       ELSE Append(alerts, [channel |-> sched.channel,
                                            deal |-> Head(sched.deals),
                                            target_price |-> sched.target_price])
          /\ IF outcome # "sent"
             THEN loopTask' = "failed" /\ sched' = IdleSweep
             ELSE IF Tail(sched.deals) = << >>
                  THEN BodyReturns
                  ELSE /\ sched' = [sched EXCEPT !.deals = Tail(sched.deals)]
                       /\ UNCHANGED loopTask
    /\ UNCHANGED <<data, disk, ready, price_history, loopMinutes, nextIn,
                   checks, reply, visible, cadence>>
    /\ UNCHANGED <<page, clock, recent>>

---------------------------------------------------------------------------
(* Environment *)

\* The largest age the history variable counts to.
AgeCap == DefaultInterval

\* Mutant of Recent: the first entries instead of the last.
RecentOldest(history) == SubSeq(history, 1, Min(Len(history), HistoryShown))

\* tracker.price_history[-10:]
Recent(history) ==
    SubSeq(history, Max(1, Len(history) - HistoryShown + 1), Len(history))

\* show_history.  The command takes no argument; one given by the requester
\* (!history 3) is ignored by the command framework.
ShowHistory(n) ==
    /\ ready
    /\ recent' = IF price_history = << >>
                  THEN [kind |-> "no_history", entries |-> << >>]
                  ELSE [kind |-> "history", entries |-> Recent(price_history)]
    /\ UNCHANGED <<data, disk, ready, price_history, alerts, loopTask,
                   loopMinutes, nextIn, sched, checks, reply, visible, cadence,
                   page, clock>>

\* datetime.now() moves on.
ClockTick ==
    /\ clock < MaxClock
    /\ clock' = clock + 1
    /\ UNCHANGED <<data, disk, ready, price_history, alerts, loopTask,
                   loopMinutes, nextIn, sched, checks, reply, visible, cadence,
                   page, recent>>

\* Time passes, unless a task is ready to run at once.
Tick ==
    /\ loopTask # "starting"
    /\ ~(loopTask = "sleeping" /\ nextIn = 0)
    /\ LET d == IF loopTask = "sleeping" THEN Min(TickStep, nextIn) ELSE TickStep
       IN /\ nextIn' = IF is_running THEN Max(0, nextIn - d) ELSE nextIn
          /\ cadence' = IF cadence.origin = "none" THEN cadence
                        ELSE [cadence EXCEPT !.age = Min(AgeCap, cadence.age + d)]
    /\ UNCHANGED <<data, disk, ready, price_history, alerts, loopTask,
                   loopMinutes, sched, checks, reply, visible>>
    /\ UNCHANGED <<page, clock, recent>>

\* The alert channel is deleted, or the bot loses access to it.
ChannelLost(channel) ==
    /\ channel \in visible
    /\ visible' = visible \ {channel}
    /\ UNCHANGED <<data, disk, ready, price_history, alerts, loopTask,
                   loopMinutes, nextIn, sched, checks, reply, cadence>>
    /\ UNCHANGED <<page, clock, recent>>

\* The process is restarted: load_config reads the file; everything kept in
\* memory only is gone.
Restart ==
    /\ data' = disk
    /\ ready' = FALSE
    /\ price_history' = << >>
    /\ alerts' = << >>
    /\ loopTask' = "none"
    /\ loopMinutes' = DecoratorMinutes
    /\ nextIn' = 0
    /\ sched' = IdleSweep
    /\ checks' = [i \in 1..MaxChecks |-> NoCheck]
    /\ reply' = NoReply
    /\ cadence' = NoCadence
    /\ UNCHANGED <<disk, visible>>
    /\ recent' = NoRecent
    /\ UNCHANGED <<page, clock>>

\* The process is killed in start_tracking between its two config.set calls,
\* and restarted: the file holds tracking_enabled and not yet the channel.
StartKilled ==
    /\ ready
    /\ ~data.tracking_enabled
    /\ disk' = [data EXCEPT !.tracking_enabled = TRUE]
    /\ data' = disk'
    /\ ready' = FALSE
    /\ price_history' = << >>
    /\ alerts' = << >>
    /\ loopTask' = "none"
    /\ loopMinutes' = DecoratorMinutes
    /\ nextIn' = 0
    /\ sched' = IdleSweep
    /\ checks' = [i \in 1..MaxChecks |-> NoCheck]
    /\ reply' = NoReply
    /\ cadence' = NoCadence
    /\ recent' = NoRecent
    /\ UNCHANGED <<visible, page, clock>>

---------------------------------------------------------------------------
(* Specifications.  Each explores every interleaving of its actions; they   *)
(* differ in the commands and the fetch outcomes they draw.                 *)

\* Start from one of channels, stop, and the connection coming up.
Lifecycle(channels) ==
    \/ OnReady
    \/ \E channel \in channels : Start(channel)
    \/ Stop

\* The background loop and its sweeps, with the fetch results of outcomes.
Sweeping(outcomes) ==
    \/ LoopBegin
    \/ \E price \in outcomes : LoopIteration(price)
    \/ \E price \in outcomes : SweepFetch(price)
    \/ SweepDone

\* check_now invocations.
Checking(outcomes) ==
    \/ \E i \in 1..MaxChecks, price \in outcomes : CheckNow(i, price)
    \/ \E i \in 1..MaxChecks, price \in outcomes : CheckFetch(i, price)
    \/ \E i \in 1..MaxChecks : CheckReply(i)

\* Scheduling: the loop under start, stop, interval changes and restarts.
Next ==
    \/ Lifecycle(Channels)
    \/ \E minutes \in GoodIntervals : SetInterval(minutes)
    \/ Sweeping(FetchOutcomes)
    \/ SweepAlert
    \/ Tick
    \/ Restart

Spec == Init /\ [][Next]_vars

\* Alerting: scheduled sweeps under threshold and interval changes, with an
\* alert channel that may disappear.
NextAlerts ==
    \/ Lifecycle({1})
    \/ \E price \in GoodPrices : SetPrice(price)
    \/ \E minutes \in GoodIntervals : SetInterval(minutes)
    \/ Sweeping(FetchOutcomes)
    \/ SweepAlert
    \/ Tick
    \/ ChannelLost(1)

SpecAlerts == Init /\ [][NextAlerts]_vars

\* Manual checks beside a scheduled sweep; one page shows a price.
NextChecks ==
    \/ Lifecycle({1})
    \/ \E price \in GoodPrices : SetPrice(price)
    \/ Checking({NoPrice, 299})
    \/ Sweeping({NoPrice, 299})
    \/ SweepAlert

SpecChecks == Init /\ [][NextChecks]_vars

\* Configuration: every command with every argument; every fetch fails.
NextConfig ==
    \/ Lifecycle({1})
    \/ \E price \in PriceArgs : SetPrice(price)
    \/ \E args \in ColorArgs : SetColors(args)
    \/ \E minutes \in IntervalArgs : SetInterval(minutes)
    \/ Sweeping({NoPrice})
    \/ Tick
    \/ Restart

SpecConfig == Init /\ [][NextConfig]_vars

\* Persistence: the commands when the configuration file may be unwritable.
NextStore ==
    \/ Lifecycle({1})
    \/ \E price \in GoodPrices : SetPrice(price)
    \/ \E args \in GoodColors : SetColors(args)
    \/ \E minutes \in GoodIntervals : SetInterval(minutes)
    \/ \E call \in {1, 2} : StartUnsaved(1, call)
    \/ StopUnsaved
    \/ \E price \in GoodPrices : SetPriceUnsaved(price)
    \/ \E args \in GoodColors : SetColorsUnsaved(args)
    \/ \E minutes \in GoodIntervals : SetIntervalUnsaved(minutes)
    \/ Sweeping({NoPrice})
    \/ Tick
    \/ Restart

SpecStore == Init /\ [][NextStore]_vars

\* Sweeps: scheduled sweeps whose fetches fail or succeed page by page, and
\* manual checks whose fetches all fail.
NextSweeps ==
    \/ Lifecycle({1})
    \/ Checking({NoPrice})
    \/ Sweeping(FetchOutcomes)
    \/ SweepAlert

SpecSweeps == Init /\ [][NextSweeps]_vars

\* Resumption: the commands that change the configuration, and restarts of
\* the process between commands and inside start_tracking.
NextResume ==
    \/ Lifecycle(Channels)
    \/ \E price \in GoodPrices : SetPrice(price)
    \/ \E minutes \in GoodIntervals : SetInterval(minutes)
    \/ Sweeping({NoPrice})
    \/ Tick
    \/ Restart
    \/ StartKilled

SpecResume == Init /\ [][NextResume]_vars

\* The history after n scheduled sweeps that each found the one price of the
\* Amazon page, at n successive times before now.
PriorHistory(n) ==
    [i \in 1..n |-> [timestamp |-> i - n - 1,
                     retailer |-> retailers["amazon"].name,
                     color |-> "silver",
                     price |-> PagePrice([retailer |-> "amazon", color |-> "silver"])]]

\* The arguments a requester may add to !history.
HistoryArgs == {0, 1, HistoryShown}

\* The bot some time after !start in channel 1, when !interval has just
\* restarted the loop: the new task is about to run before_loop and the earlier
\* iterations have left a history.
InitHistory ==
    /\ data = [DefaultData EXCEPT !.tracking_enabled = TRUE,
                                  !.alert_channel_id = 1]
    /\ disk = data
    /\ ready = TRUE
    /\ price_history \in {PriorHistory(n) : n \in 0..(HistoryShown + MaxExtra)}
    /\ alerts = << >>
    /\ loopTask = "starting"
    /\ loopMinutes = DefaultInterval
    /\ nextIn = DefaultInterval
    /\ sched = IdleSweep
    /\ checks = [i \in 1..MaxChecks |-> NoCheck]
    /\ reply = NoReply
    /\ visible = Channels
    /\ cadence = NoCadence
    /\ page = NoPage
    /\ clock = 0
    /\ recent = NoRecent

\* History: scheduled sweeps appending to a history and requesters reading it.
NextHistory ==
    \/ Stop
    \/ Sweeping(FetchOutcomes)
    \/ SweepAlert
    \/ Tick
    \/ ClockTick
    \/ \E n \in HistoryArgs : ShowHistory(n)

SpecHistory == InitHistory /\ [][NextHistory]_vars

\* Extraction: extract_price on every page of the model.
NextExtract ==
    \/ \E ps \in PageSeqs, response \in Responses : PageFetched(ps, response)
    \/ PageExtracted

SpecExtract == Init /\ [][NextExtract]_vars

---------------------------------------------------------------------------
(* Properties *)

\* A scheduled sweep begins in this step: an iteration of the loop runs the
\* body while tracking is enabled.
SweepFires ==
    data.tracking_enabled /\ \E price \in FetchOutcomes : LoopIteration(price)

\* The sweeps in flight: the scheduled one and the check_now ones.
SweepsInFlight ==
    Cardinality({i \in 1..MaxChecks : checks[i].pc = "sweep"})
        + (IF sched.pc = "sweep" THEN 1 ELSE 0)

\* C1: at most one sweep is in flight at any time, whether started by the
\* loop or by check_now.
C1_AtMostOneSweep == SweepsInFlight <= 1

\* C2: after the scheduler enters Running (start_tracking from Stopped, or
\* startup with tracking enabled), the first scheduled sweep begins no sooner
\* than one full interval later.
C2_FirstSweepAfterInterval ==
    [][(SweepFires /\ cadence.origin \in {"start", "startup"})
          => cadence.age >= data.check_interval]_vars

\* C3: a valid set_interval(d) while Running makes the status show d at once,
\* and the next scheduled sweep begins no sooner than d minutes after it.
C3_IntervalChangeDelaysSweep ==
    [][/\ \A minutes \in GoodIntervals :
            (data.tracking_enabled /\ SetInterval(minutes))
                => data'.check_interval = minutes
       /\ (SweepFires /\ cadence.origin = "interval")
            => cadence.age >= data.check_interval]_vars

\* C4: while tracking is disabled no scheduled sweep begins, and a sweep in
\* flight goes on untouched: it fetches its next target, or it ends and its
\* results are appended to the history.
C4_StopSparesSweepStartsNone ==
    [][/\ (sched.pc = "idle" /\ sched'.pc # "idle") => data.tracking_enabled
       /\ (~data'.tracking_enabled /\ sched.pc = "sweep" /\ ready')
            => \/ sched' = sched
               \/ /\ sched.todo # << >>
                  /\ sched'.pc = "sweep"
                  /\ sched'.todo = Tail(sched.todo)
                  /\ SubSeq(sched'.results, 1, Len(sched.results)) = sched.results
               \/ /\ sched.todo = << >>
                  /\ price_history' = price_history \o sched.results]_vars

\* C4 witness: tracking is disabled and the scheduled sweep, still in flight,
\* has fetched its last target and holds results for the history.
C4_Witness ==
    /\ ~data.tracking_enabled
    /\ sched.pc = "sweep"
    /\ sched.todo = << >>
    /\ sched.results # << >>

\* C5: the threshold and the alert channel a scheduled sweep alerts with are
\* the ones configured when the sweep began.
C5_SweepUsesStartConfig ==
    sched.pc = "alert"
        => /\ sched.target_price = sched.snap.target_price
           /\ sched.channel = sched.snap.channel

\* C6: a check_now that ends with observations O leaves the history as the
\* previous history followed by O.
C6_CheckAppendsHistory ==
    [][\A i \in 1..MaxChecks :
          CheckReply(i) => price_history' = price_history \o checks[i].results]_vars

\* C7: an alert is sent only by a step of the scheduled loop body, never by a
\* step of check_now (which changes checks or reply).
C7_ChecksNeverAlert ==
    [][Len(alerts') > Len(alerts)
          => /\ checks' = checks
             /\ reply' = reply
             /\ loopTask = "body"]_vars

\* C7 witness: while Running, a check_now has shown a best price at or below
\* the target and no alert has been sent.
C7_Witness ==
    /\ data.tracking_enabled
    /\ data.alert_channel_id # NoChannel
    /\ reply.kind = "prices"
    /\ reply.best <= data.target_price
    /\ alerts = << >>

\* The observations at or below the threshold t, in their order.
Qualifying(observations, t) ==
    SelectSeq(observations, LAMBDA o : t # NaN /\ o.price <= t)

\* One alert per deal, to one channel, quoting one target price.
AlertsOf(deals, channel, target_price) ==
    [k \in 1..Len(deals) |->
        [channel |-> channel, deal |-> deals[k], target_price |-> target_price]]

\* The body returns from the sweep without having alerted.
DirectReturn ==
    /\ loopTask = "body"
    /\ sched.pc = "sweep"
    /\ sched.todo = << >>
    /\ loopTask' = "sleeping"

\* The body returns after its last alert.
AlertReturn ==
    /\ loopTask = "body"
    /\ sched.pc = "alert"
    /\ loopTask' = "sleeping"

\* The alerts sent since the sweep's results were evaluated are exactly those
\* of its qualifying observations, in order.
AlertedAllDeals ==
    SubSeq(alerts', sched.base + 1, Len(alerts'))
        = AlertsOf(Qualifying(sched.results, sched.target_price),
                   sched.channel, sched.target_price)

BadPrice(price) ==
    price = NaN \/ price < MinTargetPrice \/ price > MaxTargetPrice
BadInterval(minutes) == minutes < MinInterval \/ minutes > MaxInterval
BadColors(args) ==
    args = << >> \/ \E i \in 1..Len(args) : Lower(args[i]) \notin valid_colors

\* A configuration within the bounds of its fields.
InBounds(d) ==
    /\ d.target_price # NaN
    /\ MinTargetPrice <= d.target_price /\ d.target_price <= MaxTargetPrice
    /\ MinInterval <= d.check_interval /\ d.check_interval <= MaxInterval
    /\ d.tracked_colors # << >>
    /\ \A i \in 1..Len(d.tracked_colors) : d.tracked_colors[i] \in valid_colors

\* C9: a setter called with a refused argument leaves the configuration in
\* memory, the file and the loop's timer as they were, and the configuration
\* stays within its bounds.
C9_RejectedSetterChangesNothing ==
    [][/\ \A price \in PriceArgs :
            (BadPrice(price) /\ SetPrice(price))
                => UNCHANGED <<data, disk, loopTask, loopMinutes, nextIn, sched>>
       /\ \A minutes \in IntervalArgs :
            (BadInterval(minutes) /\ SetInterval(minutes))
                => UNCHANGED <<data, disk, loopTask, loopMinutes, nextIn, sched>>
       /\ \A args \in ColorArgs :
            (BadColors(args) /\ SetColors(args))
                => UNCHANGED <<data, disk, loopTask, loopMinutes, nextIn, sched>>
       /\ InBounds(data')
       /\ InBounds(disk')]_vars

\* C10: the configuration in memory equals the persisted one, also after a
\* command whose save failed.
C10_MemoryEqualsFile == data = disk

\* extract_price has returned for a page that came with a 200.
PageRead == page.pc = "done" /\ page.response = "200"

\* The positions at which a pattern's first match begins: one, or none.
FirstMatch(pattern, text) ==
    {i \in 1..Len(text) :
        /\ MatchAt(pattern, text, i)
        /\ \A j \in 1..(i - 1) : ~MatchAt(pattern, text, j)}

\* The patterns that match somewhere in the text, by their rank.
Matching(text) ==
    {k \in 1..Len(patterns) : FirstMatch(patterns[k], text) # {}}

\* C11 as stated: the candidate is the first match of the first pattern that
\* matches anywhere; the result is that candidate when it is plausible and no
\* signal otherwise, whatever the later patterns and matches are.
C11_SingleShot ==
    PageRead =>
        LET text == Text(page.pieces)
        IN IF Matching(text) = {}
           THEN page.price = NoPrice
           ELSE LET k == CHOOSE k \in Matching(text) :
                            \A k2 \in Matching(text) : k <= k2
                    i == CHOOSE i \in FirstMatch(patterns[k], text) : TRUE
                    candidate == Group(patterns[k], text, i)
                IN page.price = IF PlausibleCents(candidate) THEN candidate
                                ELSE NoPrice

\* C11 amended: each pattern offers its first match only; the result is the
\* candidate of the first pattern, in priority order, whose candidate is
\* plausible, and no signal when no pattern has a plausible first match.
C11_FirstPlausibleCandidate ==
    PageRead =>
        LET text == Text(page.pieces)
            Candidates(k) == {Group(patterns[k], text, i) :
                                 i \in FirstMatch(patterns[k], text)}
        IN /\ page.price # NoPrice
                => \E k \in 1..Len(patterns) :
                      /\ page.price \in Candidates(k)
                      /\ PlausibleCents(page.price)
                      /\ \A k2 \in 1..(k - 1) :
                            \A c \in Candidates(k2) : ~PlausibleCents(c)
           /\ page.price = NoPrice
                => \A k \in 1..Len(patterns) :
                      \A c \in Candidates(k) : ~PlausibleCents(c)

\* C11 witness: the first match of the first pattern is out of the range, and
\* the price returned is the second pattern's.
C11_Witness ==
    /\ PageRead
    /\ \E i \in FirstMatch(patterns[1], Text(page.pieces)) :
          ~PlausibleCents(Group(patterns[1], Text(page.pieces), i))
    /\ page.price # NoPrice

\* The pieces of the page that are price tags.
PriceTags == {i \in 1..Len(page.pieces) : Pieces[page.pieces[i]].cents # NoPrice}

\* C12: a page that shows one price yields that price when it is in
\* [200, 600] and no signal when it is outside, whatever surrounds it; a
\* price returned is always in the range.
C12_OnlyThePagesPlausiblePrice ==
    PageRead =>
        /\ page.price # NoPrice => PlausibleCents(page.price)
        /\ Cardinality(PriceTags) = 1
             => LET amount == Pieces[page.pieces[CHOOSE i \in PriceTags : TRUE]].cents
                IN page.price = IF PlausibleCents(amount) THEN amount
                                ELSE NoPrice

\* The settings start and stop must keep.
SettingsKept(d, e) ==
    /\ e.target_price = d.target_price
    /\ e.tracked_colors = d.tracked_colors
    /\ e.check_interval = d.check_interval

\* C13: start_tracking and stop_tracking keep target_price, tracked_colors
\* and check_interval, in memory and in the file; a start from Stopped sets
\* the flag and the requester's channel, a stop clears the flag and keeps the
\* channel; a start while Running and a stop while Stopped change nothing.
C13_StartStopFrame ==
    [][/\ \A channel \in Channels :
            Start(channel)
                => /\ SettingsKept(data, data') /\ SettingsKept(disk, disk')
                   /\ data.tracking_enabled => UNCHANGED vars
                   /\ ~data.tracking_enabled
                        => /\ data'.tracking_enabled
                           /\ data'.alert_channel_id = channel
                           /\ disk' = data'
       /\ Stop
            => /\ SettingsKept(data, data') /\ SettingsKept(disk, disk')
               /\ data'.alert_channel_id = data.alert_channel_id
               /\ ~data.tracking_enabled => UNCHANGED vars
               /\ data.tracking_enabled
                    => ~data'.tracking_enabled /\ disk' = data']_vars

\* C13 witness: tracking was started again, from the second channel, while
\* the loop of an earlier start was waiting for its next iteration, and the
\* interval set before is still there.
C13_Witness ==
    /\ data.tracking_enabled
    /\ cadence.origin = "start"
    /\ loopTask = "sleeping"
    /\ nextIn > 0
    /\ data.alert_channel_id = 2
    /\ data.check_interval = 30
    /\ disk = data

\* The last k entries of a history, oldest first.
LastOf(history, k) == [i \in 1..k |-> history[Len(history) - k + i]]

\* The entries are in the order of their timestamps.
Chronological(history) ==
    \A i, j \in 1..Len(history) :
        i < j => history[i].timestamp <= history[j].timestamp

\* A step only adds entries at the end of the history.
AppendOnly ==
    /\ Len(price_history') >= Len(price_history)
    /\ SubSeq(price_history', 1, Len(price_history)) = price_history

C15_RestartResumes ==
    [][/\ (Restart \/ StartKilled) => data' = data
       /\ (OnReady /\ ~ready) => (is_running' <=> data.tracking_enabled)
       /\ data'.tracking_enabled => data'.alert_channel_id # NoChannel]_vars

\* One fetch of a sweep, from s to t, with the outcome price: the target at
\* the head is done, the others wait in their order, and the results grow by
\* the observation of that target exactly when a price came back.
FetchStep(s, t, price) ==
    /\ t.pc = "sweep"
    /\ t.todo = Tail(s.todo)
    /\ IF price = NoPrice
       THEN t.results = s.results
       ELSE /\ Len(t.results) = Len(s.results) + 1
            /\ SubSeq(t.results, 1, Len(s.results)) = s.results
            /\ t.results[Len(t.results)].price = price
            /\ t.results[Len(t.results)].color = Head(s.todo).color
            /\ t.results[Len(t.results)].retailer
                   = retailers[Head(s.todo).retailer].name

\* C16: a fetch that fails does not end a sweep: every fetch, failed or not,
\* leaves the remaining targets to be fetched in order and the results of the
\* earlier ones in place, and a sweep whose fetches all failed ends with an
\* empty result, the loop going on and the requester being told.
C16_FailureNeverAbortsSweep ==
    [][/\ \A price \in FetchOutcomes :
            SweepFetch(price) => FetchStep(sched, sched', price) /\ loopTask' = "body"
       /\ \A i \in 1..MaxChecks, price \in FetchOutcomes :
            CheckFetch(i, price) => FetchStep(checks[i], checks'[i], price)
       /\ (SweepDone /\ sched.results = << >>)
            => /\ loopTask' = "sleeping"
               /\ price_history' = price_history
               /\ alerts' = alerts
       /\ \A i \in 1..MaxChecks :
            (CheckReply(i) /\ checks[i].results = << >>)
                => reply'.kind = "no_prices"]_vars

\* C16 witness: a scheduled sweep has fetched its last target and holds the
\* one observation it made, between fetches that failed before and after it,
\* and a manual check whose fetches all failed has answered.
C16_Witness ==
    /\ sched.pc = "sweep"
    /\ sched.todo = << >>
    /\ Len(sched.results) = 1
    /\ sched.results[1].retailer = retailers["target"].name
    /\ reply.kind = "no_prices"

\* C17: whenever tracking is enabled and the loop's timer is armed, the
\* period of the timer is the configured interval.
C17_TimerPeriodIsInterval ==
    (data.tracking_enabled /\ loopTask \in {"sleeping", "body"})
        => loopMinutes = data.check_interval

\* C18: a scheduled sweep in flight is not cancelled by a command: each step
\* of the running process leaves it as it is, takes it one fetch further, or
\* ends it with its results appended to the history.
C18_SweepRunsToCompletion ==
    [][(sched.pc = "sweep" /\ ready')
          => \/ sched' = sched
             \/ /\ sched.todo # << >>
                /\ sched'.pc = "sweep"
                /\ sched'.todo = Tail(sched.todo)
                /\ SubSeq(sched'.results, 1, Len(sched.results)) = sched.results
             \/ /\ sched.todo = << >>
                /\ price_history' = price_history \o sched.results]_vars

\* C19: while the bot is connected and the status reports tracking as
\* running, the task of the loop is alive, so that a sweep fires again.
C19_RunningLoopAlive ==
    (ready /\ data.tracking_enabled) => is_running

\* C20: no alert is sent while tracking is disabled.
C20_NoAlertWhileStopped ==
    [][Len(alerts') > Len(alerts) => data.tracking_enabled]_vars

====
